---- MODULE Spec2Model ----
(***************************************************************************)
(* Postback ingestion pipeline of mvp_postback_helper: identifier          *)
(* resolution, duplicate guard, event recording, funnel snapshot update    *)
(* and dispatch fan-out, modelled at the granularity of one database       *)
(* statement (autocommit, db.py:57) or one HTTP attempt per step.          *)
(* Requests are served by several uvicorn worker processes (main.py:128),  *)
(* so the steps of different requests interleave at statement level.       *)
(***************************************************************************)
EXTENDS Integers, Sequences, FiniteSets, TLC

\* ---------------------------------------------------------------- bounds
MaxRequests == 2
MaxUsers == 2
MaxTime == 60

\* ------------------------------------------------------ program constants
FtmWindow == 30
DepWindow == 60
TidBase == 6
Retries == 2
Delay == 5
HttpTimeout == 10
RoundTrip == 1
TickSeconds == FtmWindow

\* ------------------------------------------------------------ value sets
Procs == 1..MaxRequests
UserIds == 1..MaxUsers
NoUser == 0
Null == <<>>
Some(v) == <<v>>

IdFamily == {"ftm", "reg"}
DepFamily == {"dep", "redep", "withdraw", "revenue"}
DepositClass == {"dep", "redep"}
Kinds == IdFamily \cup DepFamily
Targets == {"chatterfy", "keitaro"}
Outcomes == {"200", "non200", "timeout", "client_error", "unknown_error"}

VARIABLES users, transactions, now, pc, req, disp, nreq, sends, http

vars == <<users, transactions, now, pc, req, disp, nreq, sends, http>>

\* ------------------------------------------------------------- the store
NullUser ==
  [exists |-> FALSE, subscriber_id |-> "", clickid |-> "", trader_id |-> "",
   sub_3 |-> "", ftm_time |-> Null, reg_time |-> Null, dep_time |-> Null,
   dep_sum |-> Null, redep_time |-> Null, redep_sum |-> Null, revenue |-> Null,
   manager |-> ""]

Exists(U, u) == u \in UserIds /\ U[u].exists

\* the tracked lead present before the first postback: it came through the
\* deeplink resolver and carries a Keitaro sub-id and a Chatterfy click id
SeedUser ==
  [NullUser EXCEPT !.exists = TRUE, !.subscriber_id = "s1", !.clickid = "c1",
                   !.sub_3 = "k1"]

SeedUsers == [u \in UserIds |-> IF u = 1 THEN SeedUser ELSE NullUser]

\* one call of fetch_with_retry: its state, the attempts made, the outcome of
\* the last failed attempt, the ClientSession held in the local `session`,
\* the session each attempt went through, the sleeps made, the error_type
\* of the returned result ("" for None), the time after the call of
\* send_postbacks_parallel at which the coroutine began to run and the
\* seconds it has been running since, and the alerts it passed to
\* send_error_log, each with the attempt counter at that moment, and the
\* attempts to which the target answered HTTP 200
NoSend ==
  [st |-> "none", attempt |-> 0, last |-> "", session |-> 0, used |-> <<>>,
   waits |-> <<>>, error_type |-> "", started |-> 0, elapsed |-> 0,
   alerts |-> <<>>, got200 |-> <<>>]

NewSend == [NoSend EXCEPT !.st = "pending"]

NoDispatch == [t \in Targets |-> NoSend]

\* the module global _http_session (0 for None), the ClientSession objects
\* that are open, the number constructed so far, and whether the lifespan
\* shutdown has run
NoHttp == [session |-> 0, open |-> {}, built |-> 0, down |-> FALSE]

IdleReq ==
  [n |-> 0, kind |-> "", id |-> NoUser, subscriber_id |-> "", clickid |-> "",
   trader_id |-> "", sum |-> Null, manager |-> "",
   actual |-> NoUser, ens |-> NoUser, created |-> FALSE, existed |-> FALSE,
   old_trader |-> "", tr_updated |-> FALSE, prev_rev |-> Null,
   tcheck |-> Null, tid |-> 0, txid |-> 0, user_updated |-> FALSE,
   subid |-> "", user_clickid |-> "", total |-> 0,
   status |-> "", keitaro |-> "", chatterfy |-> "", dup_failed |-> FALSE,
   raw |-> [subscriber_id |-> "", clickid |-> "", trader_id |-> "",
           id |-> Null, sum |-> Null]]

\* ------------------------------------------------- identifier resolution
BySubscriber(U, s) == {u \in UserIds : U[u].exists /\ U[u].subscriber_id = s}
ByClickid(U, c) == {u \in UserIds : U[u].exists /\ U[u].clickid = c}
ByTrader(U, t) == {u \in UserIds : U[u].exists /\ U[u].trader_id = t}

\* variant: the click id is consulted before the subscriber id
FindUserSetClickFirst(U, id, sub, click, tr) ==
  IF id # NoUser /\ Exists(U, id) THEN {id}
  ELSE IF click # "" /\ ByClickid(U, click) # {} THEN ByClickid(U, click)
  ELSE IF sub # "" /\ BySubscriber(U, sub) # {} THEN BySubscriber(U, sub)
  ELSE IF tr # "" /\ ByTrader(U, tr) # {} THEN ByTrader(U, tr)
  ELSE {NoUser}

\* variant: the guards `if trader_id:` etc. are missing, an identifier that
\* was not supplied is looked up as the empty string
FindUserSetUnguarded(U, id, sub, click, tr) ==
  IF id # NoUser /\ Exists(U, id) THEN {id}
  ELSE IF BySubscriber(U, sub) # {} THEN BySubscriber(U, sub)
  ELSE IF ByClickid(U, click) # {} THEN ByClickid(U, click)
  ELSE IF ByTrader(U, tr) # {} THEN ByTrader(U, tr)
  ELSE {NoUser}

\* find_user_by_any_identifier: the set of rows fetchone() may return
\* ({NoUser} when the function returns None)
FindUserSet(U, id, sub, click, tr) ==
  IF id # NoUser /\ Exists(U, id) THEN {id}
  ELSE IF sub # "" /\ BySubscriber(U, sub) # {} THEN BySubscriber(U, sub)
  ELSE IF click # "" /\ ByClickid(U, click) # {} THEN ByClickid(U, click)
  ELSE IF tr # "" /\ ByTrader(U, tr) # {} THEN ByTrader(U, tr)
  ELSE {NoUser}

\* variant: revenue resolves like the other handlers, internal id first
RevenueFindSetIdFirst(U, id, sub, click, tr) ==
  FindUserSet(U, id, sub, click, tr)

\* revenue_postback: trader id first, then the other identifiers
RevenueFindSet(U, id, sub, click, tr) ==
  IF tr # "" /\ FindUserSet(U, NoUser, "", "", tr) # {NoUser}
  THEN FindUserSet(U, NoUser, "", "", tr)
  ELSE FindUserSet(U, id, sub, click, "")

\* ---------------------------------------------------------- event log
\* the user an event is checked and recorded against
EventUser(r) == IF r.kind \in IdFamily THEN r.id ELSE r.actual

Window(k) == IF k \in IdFamily THEN FtmWindow ELSE DepWindow

\* variant: the time_window_seconds argument is ignored and the short window
\* is applied to every kind
IsDuplicateShortWindow(T, u, k, s, w, t) ==
  \E i \in 1..Len(T) :
    /\ T[i].user_id = u
    /\ T[i].action = k
    /\ (s # Null => T[i].sum = s)
    /\ T[i].created_at > t - FtmWindow

\* check_duplicate_transaction: COUNT(*) > 0 over the trailing window
IsDuplicate(T, u, k, s, w, t) ==
  \E i \in 1..Len(T) :
    /\ T[i].user_id = u
    /\ T[i].action = k
    /\ (s # Null => T[i].sum = s)
    /\ T[i].created_at > t - w

\* get_user_deposits_count
DepositsCount(T, u) ==
  Cardinality({i \in 1..Len(T) : T[i].user_id = u /\ T[i].action \in DepositClass})

\* float("nan"), the amount a sum of "nan" parses to: it is no number, every
\* comparison with it is false
NotANumber == 0 - 1000

\* addition of amounts: a sum with a nan term is nan
Plus(a, b) == IF a = NotANumber \/ b = NotANumber THEN NotANumber ELSE a + b

RECURSIVE SumRows(_, _, _)
SumRows(T, u, i) ==
  IF i = 0 THEN 0
  ELSE Plus(SumRows(T, u, i - 1),
            IF T[i].user_id = u /\ T[i].action \in DepositClass /\ T[i].sum # Null
            THEN T[i].sum[1] ELSE 0)

\* variant: the total is taken from the deposit and re-deposit sums stored on
\* the User
TotalFromUserFields(T, u) ==
  (IF Exists(users, u) /\ users[u].dep_sum # Null THEN users[u].dep_sum[1] ELSE 0)
  + (IF Exists(users, u) /\ users[u].redep_sum # Null
     THEN users[u].redep_sum[1] ELSE 0)

\* get_user_total_deposits_sum
TotalDepositsSum(T, u) == SumRows(T, u, Len(T))

\* ------------------------------------------------------ handler routing
\* where a handler goes after a step, given the request's parameters
AfterTrader2(r) == IF r.kind = "revenue" THEN "prevrev" ELSE "dupcheck"

AfterClick2(r) ==
  IF r.trader_id # "" /\ ~r.created THEN "trget2" ELSE AfterTrader2(r)

HandlerChain(r) == IF r.clickid # "" THEN "click2" ELSE AfterClick2(r)

AfterEnsure(r) ==
  IF r.kind \in IdFamily THEN "dupcheck"
  ELSE IF r.kind = "manager" THEN "manager"
  ELSE HandlerChain(r)

AfterClick1(r) == IF r.trader_id # "" THEN "trget1" ELSE AfterEnsure(r)

EnsureChain(r) == IF r.clickid # "" THEN "click1" ELSE AfterClick1(r)

\* the user the clickid / trader id statements of a step address
StepUser(p) == IF pc[p] \in {"click1", "trget1", "trupd1"} THEN req[p].ens
               ELSE req[p].actual

Finish(p, r, st) ==
  /\ req' = [req EXCEPT ![p] = [r EXCEPT !.status = st]]
  /\ pc' = [pc EXCEPT ![p] = "done"]

\* ----------------------------------------------------------------- Init
Init ==
  /\ users = SeedUsers
  /\ transactions = <<>>
  /\ now = 0
  /\ pc = [p \in Procs |-> "idle"]
  /\ req = [p \in Procs |-> IdleReq]
  /\ disp = [p \in Procs |-> NoDispatch]
  /\ nreq = 0
  /\ sends = {}
  /\ http = NoHttp

\* ------------------------------------------------ sanitize_identifier
\* Query values are texts; a text is read as the sequence of its pieces: a
\* blank, an opening brace, a closing brace, or a word without blanks and
\* braces. A text that is not listed is a single word.
RawText ==
  ("" :> <<>>) @@
  ("  " :> <<" ", " ">>) @@
  (" t1 " :> <<" ", "t1", " ">>) @@
  (" s1 " :> <<" ", "s1", " ">>) @@
  ("{trader_id}" :> <<"{", "trader_id", "}">>) @@
  ("{subscriber_id}" :> <<"{", "subscriber_id", "}">>) @@
  ("{clickid}" :> <<"{", "clickid", "}">>) @@
  (" {clickid} " :> <<" ", "{", "clickid", "}", " ">>) @@
  ("{}" :> <<"{", "}">>)

Pieces(v) == IF v \in DOMAIN RawText THEN RawText[v] ELSE <<v>>

\* the text whose pieces are q
TextOf(q) ==
  IF Len(q) = 1 /\ q[1] \notin {" ", "{", "}"}
  THEN q[1]
  ELSE CHOOSE v \in DOMAIN RawText : RawText[v] = q

\* str.strip(): leading and trailing blanks removed
RECURSIVE StripLeft(_)
StripLeft(q) == IF q # <<>> /\ Head(q) = " " THEN StripLeft(Tail(q)) ELSE q

RECURSIVE StripRight(_)
StripRight(q) ==
  IF q # <<>> /\ q[Len(q)] = " " THEN StripRight(SubSeq(q, 1, Len(q) - 1)) ELSE q

Strip(q) == StripRight(StripLeft(q))

\* PLACEHOLDER_PATTERN = ^\{[^}]+\}$ : an opening brace, at least one
\* character other than a closing brace, a closing brace
IsPlaceholder(q) ==
  /\ Len(q) >= 3
  /\ q[1] = "{"
  /\ q[Len(q)] = "}"
  /\ \A i \in 2..(Len(q) - 1) : q[i] # "}"

\* str.lower() on the words that occur
LowerWord ==
  ("TRADER_ID" :> "trader_id") @@ ("ClickId" :> "clickid") @@
  ("Subscriber_Id" :> "subscriber_id")

Lower(q) ==
  [i \in 1..Len(q) |-> IF q[i] \in DOMAIN LowerWord THEN LowerWord[q[i]] ELSE q[i]]

\* variant: the value is returned as it came
SanitizeNothing(value, param_name) == value

\* sanitize_identifier; "" stands for None
sanitize_identifier(value, param_name) ==
  LET q == Strip(Pieces(value))
  IN IF q = <<>> THEN ""
     ELSE IF IsPlaceholder(q) THEN ""
     ELSE IF Lower(q) = Lower(<<param_name>>) THEN ""
     ELSE TextOf(q)

\* ------------------------------------------------- numeric parameters
\* the numbers that occur as ids and amounts
NumRange == (0 - 150)..150

\* the decimal numeral of a number, str(n)
Numeral(n) == ToString(n)

\* int(): the texts Python reads as an integer, and their values; any other
\* text raises ValueError
IntLiteral ==
  [w \in {Numeral(n) : n \in NumRange} |->
     CHOOSE n \in NumRange : Numeral(n) = w]

\* float(): the integer numerals and the word nan
FloatLiteral == IntLiteral @@ ("nan" :> NotANumber)

\* a query parameter is Null when absent and Some(text) when supplied; the
\* word of a supplied text once int() or float() has stripped its blanks
\* (a text of several pieces is no numeral)
NumWord(text) ==
  LET q == Strip(Pieces(text)) IN IF Len(q) = 1 THEN q[1] ELSE ""

\* parse_id_parameter; NoUser stands for None
parse_id_parameter(id_value) ==
  IF id_value = Null \/ id_value = Some("") THEN NoUser
  ELSE LET w == NumWord(id_value[1])
       IN IF w \in DOMAIN IntLiteral
          THEN IF IntLiteral[w] > 0 THEN IntLiteral[w] ELSE NoUser
          ELSE NoUser

\* DEFAULT_SUM of parse_sum_parameter
DefaultSum == 59

\* parse_sum_parameter
parse_sum_parameter(sum_value) ==
  IF sum_value = Null \/ sum_value = Some("") THEN DefaultSum
  ELSE LET w == NumWord(sum_value[1])
       IN IF w \in DOMAIN FloatLiteral
          THEN IF FloatLiteral[w] # NotANumber /\ FloatLiteral[w] <= 0
               THEN DefaultSum ELSE FloatLiteral[w]
          ELSE DefaultSum

\* parse_revenue_parameter; Null stands for None
parse_revenue_parameter(revenue_value) ==
  IF revenue_value = Null \/ revenue_value = Some("") THEN Null
  ELSE LET w == NumWord(revenue_value[1])
       IN IF w \in DOMAIN FloatLiteral THEN Some(FloatLiteral[w]) ELSE Null

\* ------------------------------------------------------------- handlers
\* variant: a request without a usable id is answered with an error, whatever
\* other identifiers it carries
BeginIdRequired(p, k, id, sub, click, tr, s, id_value, sum_value) ==
  /\ pc[p] \in {"idle", "done"}
  /\ nreq' = nreq + 1
  /\ disp' = [disp EXCEPT ![p] = NoDispatch]
  /\ LET r == [IdleReq EXCEPT !.n = nreq + 1, !.kind = k, !.id = id,
                              !.subscriber_id = sanitize_identifier(sub, "subscriber_id"),
                              !.clickid = sanitize_identifier(click, "clickid"),
                              !.trader_id = sanitize_identifier(tr, "trader_id"),
                              !.raw = [subscriber_id |-> sub, clickid |-> click,
                                       trader_id |-> tr, id |-> id_value,
                                       sum |-> sum_value],
                              !.sum = s]
     IN IF k \in IdFamily
        THEN /\ req' = [req EXCEPT ![p] = r]
             /\ pc' = [pc EXCEPT ![p] = "ensure"]
        ELSE IF (k = "revenue" /\ s = Null) \/ id = NoUser
        THEN Finish(p, r, "error")
        ELSE /\ req' = [req EXCEPT ![p] = r]
             /\ pc' = [pc EXCEPT ![p] = "find"]
  /\ UNCHANGED <<users, transactions, now, sends, http>>

\* the entry of a handler once its id and sum are parsed: the three
\* identifier parameters are sanitized and the handler works with the
\* sanitized values from then on; revenue_postback answers an error when its
\* sum did not parse, dep/redep/revenue when no identifier is left
Begin(p, k, id, sub, click, tr, s, id_value, sum_value) ==
  /\ pc[p] \in {"idle", "done"}
  /\ nreq' = nreq + 1
  /\ disp' = [disp EXCEPT ![p] = NoDispatch]
  /\ LET subscriber_id == sanitize_identifier(sub, "subscriber_id")
         clickid == sanitize_identifier(click, "clickid")
         trader_id == sanitize_identifier(tr, "trader_id")
         r == [IdleReq EXCEPT !.n = nreq + 1, !.kind = k, !.id = id,
                              !.subscriber_id = subscriber_id,
                              !.clickid = clickid,
                              !.trader_id = trader_id,
                              !.raw = [subscriber_id |-> sub, clickid |-> click,
                                       trader_id |-> tr, id |-> id_value,
                                       sum |-> sum_value],
                              !.sum = s]
     IN IF k \in IdFamily
        THEN /\ req' = [req EXCEPT ![p] = r]
             /\ pc' = [pc EXCEPT ![p] = "ensure"]
        ELSE IF k = "revenue" /\ s = Null
        THEN Finish(p, r, "error")
        ELSE IF k # "withdraw" /\ id = NoUser /\ subscriber_id = ""
                /\ clickid = "" /\ trader_id = ""
        THEN Finish(p, r, "error")
        ELSE /\ req' = [req EXCEPT ![p] = r]
             /\ pc' = [pc EXCEPT ![p] = "find"]
  /\ UNCHANGED <<users, transactions, now, sends, http>>

\* dep_postback, redep_postback, withdraw_postback and revenue_postback take
\* id and sum as texts and parse them themselves
StartRaw(p, k, id_value, sub, click, tr, sum_value) ==
  Begin(p, k, parse_id_parameter(id_value), sub, click, tr,
        IF k = "revenue" THEN parse_revenue_parameter(sum_value)
        ELSE Some(parse_sum_parameter(sum_value)),
        id_value, sum_value)

\* a request whose id and sum are the numerals of id and s (no id parameter
\* when id is NoUser); ftm_postback and reg_postback declare id as an int,
\* which the framework parses, and take no sum
StartReq(p, k, id, sub, click, tr, s) ==
  IF k \in IdFamily
  THEN Begin(p, k, id, sub, click, tr, Null, Some(Numeral(id)), Null)
  ELSE StartRaw(p, k, IF id = NoUser THEN Null ELSE Some(Numeral(id)),
                sub, click, tr, Some(Numeral(s)))

\* manager_postback: manager_id comes from the path, id is required
StartManager(p, id, click, m) ==
  /\ pc[p] \in {"idle", "done"}
  /\ nreq' = nreq + 1
  /\ disp' = [disp EXCEPT ![p] = NoDispatch]
  /\ req' = [req EXCEPT ![p] =
               [IdleReq EXCEPT !.n = nreq + 1, !.kind = "manager", !.id = id,
                               !.clickid = sanitize_identifier(click, "clickid"),
                               !.raw = [subscriber_id |-> "", clickid |-> click,
                                        trader_id |-> "",
                                        id |-> Some(Numeral(id)), sum |-> Null],
                               !.manager = m]]
  /\ pc' = [pc EXCEPT ![p] = "ensure"]
  /\ UNCHANGED <<users, transactions, now, sends, http>>

\* find_user_for_deposit / the two lookups of revenue_postback
Find(p) ==
  /\ pc[p] = "find"
  /\ LET r == req[p]
         cands == IF r.kind = "revenue"
                  THEN RevenueFindSet(users, r.id, r.subscriber_id, r.clickid, r.trader_id)
                  ELSE FindUserSet(users, r.id, r.subscriber_id, r.clickid, r.trader_id)
     IN \E a \in cands :
          IF a # NoUser
          THEN /\ req' = [req EXCEPT ![p].actual = a]
               /\ pc' = [pc EXCEPT ![p] = HandlerChain(r)]
          ELSE IF r.id # NoUser
          THEN /\ req' = req
               /\ pc' = [pc EXCEPT ![p] = "ensure"]
          ELSE Finish(p, r, "error")
  /\ UNCHANGED <<users, transactions, now, disp, nreq, sends, http>>

\* ensure_user_exists: lookup by every identifier, then the SELECT of
\* create_user_if_not_exists
Ensure(p) ==
  /\ pc[p] = "ensure"
  /\ LET r == req[p]
     IN \E a \in FindUserSet(users, r.id, r.subscriber_id, r.clickid, r.trader_id) :
          IF a # NoUser
          THEN LET r2 == [r EXCEPT !.ens = a, !.existed = TRUE,
                                   !.actual = IF r.kind \in DepFamily THEN r.id ELSE NoUser]
               IN /\ req' = [req EXCEPT ![p] = r2]
                  /\ pc' = [pc EXCEPT ![p] = EnsureChain(r2)]
          ELSE /\ req' = req
               /\ pc' = [pc EXCEPT ![p] = "create"]
  /\ UNCHANGED <<users, transactions, now, disp, nreq, sends, http>>

\* variant: the INSERT has no ON CONFLICT clause and the SELECT before it is
\* missing: every call reports a created row
CreateUnconditional(p) ==
  /\ pc[p] = "create"
  /\ LET r == req[p]
         r2 == [r EXCEPT !.ens = r.id, !.created = TRUE,
                         !.actual = IF r.kind \in DepFamily THEN r.id ELSE NoUser]
     IN /\ users' = [users EXCEPT ![r.id] =
                       [NullUser EXCEPT !.exists = TRUE,
                                        !.subscriber_id = r.subscriber_id,
                                        !.trader_id = r.trader_id,
                                        !.clickid = r.clickid]]
        /\ req' = [req EXCEPT ![p] = r2]
        /\ pc' = [pc EXCEPT ![p] = AfterEnsure(r2)]
  /\ UNCHANGED <<transactions, now, disp, nreq, sends, http>>

\* create_user_if_not_exists: INSERT ... ON CONFLICT (id) DO NOTHING RETURNING id
Create(p) ==
  /\ pc[p] = "create"
  /\ LET r == req[p]
         isNew == ~users[r.id].exists
         r2 == [r EXCEPT !.ens = r.id, !.created = isNew, !.existed = ~isNew,
                         !.actual = IF r.kind \in DepFamily THEN r.id ELSE NoUser]
     IN /\ users' = IF isNew
                    THEN [users EXCEPT ![r.id] =
                            [NullUser EXCEPT !.exists = TRUE,
                                             !.subscriber_id = r.subscriber_id,
                                             !.trader_id = r.trader_id,
                                             !.clickid = r.clickid]]
                    ELSE users
        /\ req' = [req EXCEPT ![p] = r2]
        /\ pc' = [pc EXCEPT ![p] = IF isNew THEN AfterEnsure(r2) ELSE EnsureChain(r2)]
  /\ UNCHANGED <<transactions, now, disp, nreq, sends, http>>

\* variant: the UPDATE has no condition on the stored click id
UpdateClickidAlways(p) ==
  /\ pc[p] \in {"click1", "click2"}
  /\ LET r == req[p]
         u == StepUser(p)
     IN /\ users' = IF Exists(users, u)
                    THEN [users EXCEPT ![u].clickid = r.clickid]
                    ELSE users
        /\ pc' = [pc EXCEPT ![p] = IF pc[p] = "click1" THEN AfterClick1(r)
                                   ELSE AfterClick2(r)]
  /\ UNCHANGED <<transactions, now, req, disp, nreq, sends, http>>

\* update_user_clickid: UPDATE ... WHERE id = u AND clickid is NULL or ''
UpdateClickid(p) ==
  /\ pc[p] \in {"click1", "click2"}
  /\ LET r == req[p]
         u == StepUser(p)
     IN /\ users' = IF Exists(users, u) /\ users[u].clickid = ""
                    THEN [users EXCEPT ![u].clickid = r.clickid]
                    ELSE users
        /\ pc' = [pc EXCEPT ![p] = IF pc[p] = "click1" THEN AfterClick1(r)
                                   ELSE AfterClick2(r)]
  /\ UNCHANGED <<transactions, now, req, disp, nreq, sends, http>>

\* get_user_trader_id, compared with the supplied trader id
TraderGet(p) ==
  /\ pc[p] \in {"trget1", "trget2"}
  /\ LET r == req[p]
         u == StepUser(p)
         old == IF Exists(users, u) THEN users[u].trader_id ELSE ""
     IN IF old = r.trader_id
        THEN /\ req' = req
             /\ pc' = [pc EXCEPT ![p] = IF pc[p] = "trget1" THEN AfterEnsure(r)
                                        ELSE AfterTrader2(r)]
        ELSE /\ req' = [req EXCEPT ![p].old_trader = old]
             /\ pc' = [pc EXCEPT ![p] = IF pc[p] = "trget1" THEN "trupd1" ELSE "trupd2"]
  /\ UNCHANGED <<users, transactions, now, disp, nreq, sends, http>>

\* update_user_trader_id: UPDATE users SET trader_id = t WHERE id = u
TraderUpdate(p) ==
  /\ pc[p] \in {"trupd1", "trupd2"}
  /\ LET r == req[p]
         u == StepUser(p)
     IN /\ users' = IF Exists(users, u)
                    THEN [users EXCEPT ![u].trader_id = r.trader_id]
                    ELSE users
        /\ req' = [req EXCEPT ![p].tr_updated = Exists(users, u)]
        /\ pc' = [pc EXCEPT ![p] = IF pc[p] = "trupd1" THEN AfterEnsure(r)
                                   ELSE AfterTrader2(r)]
  /\ UNCHANGED <<transactions, now, disp, nreq, sends, http>>

\* variant: the stored revenue is not read, previous_revenue stays None
PrevRevenueNotRead(p) ==
  /\ pc[p] = "prevrev"
  /\ pc' = [pc EXCEPT ![p] = "dupcheck"]
  /\ UNCHANGED <<users, transactions, now, req, disp, nreq, sends, http>>

\* manager_postback after the user is ensured: old_manager =
\* db.get_user_manager(id). DataBase defines no get_user_manager (nor
\* update_user_manager), the call raises AttributeError, which the handler's
\* except clause turns into the error response
ManagerAssign(p) ==
  /\ pc[p] = "manager"
  /\ Finish(p, req[p], "error")
  /\ UNCHANGED <<users, transactions, now, disp, nreq, sends, http>>

\* get_user_revenue (revenue_postback only)
PrevRevenue(p) ==
  /\ pc[p] = "prevrev"
  /\ LET u == req[p].actual
     IN req' = [req EXCEPT ![p].prev_rev =
                  IF Exists(users, u) THEN users[u].revenue ELSE Null]
  /\ pc' = [pc EXCEPT ![p] = "dupcheck"]
  /\ UNCHANGED <<users, transactions, now, disp, nreq, sends, http>>

\* the handler's duplicate guard
DupCheck(p) ==
  /\ pc[p] = "dupcheck"
  /\ LET r == [req[p] EXCEPT !.tcheck = Some(now)]
     IN IF IsDuplicate(transactions, EventUser(r), r.kind, r.sum, Window(r.kind), now)
        THEN Finish(p, r, "duplicate")
        ELSE /\ req' = [req EXCEPT ![p] = r]
             /\ pc' = [pc EXCEPT ![p] = IF r.kind \in DepositClass THEN "count"
                                        ELSE "insert"]
  /\ UNCHANGED <<users, transactions, now, disp, nreq, sends, http>>

\* variant: a duplicate check that could not be made answers "duplicate"
DupCheckFailsClosed(p) ==
  /\ pc[p] = "dupcheck"
  /\ Finish(p, [req[p] EXCEPT !.dup_failed = TRUE], "duplicate")
  /\ UNCHANGED <<users, transactions, now, disp, nreq, sends, http>>

\* check_duplicate_transaction when its SELECT raises: the exception is caught
\* and False is returned, the handler goes on as for a new event
DupCheckFails(p) ==
  /\ pc[p] = "dupcheck"
  /\ req' = [req EXCEPT ![p].dup_failed = TRUE]
  /\ pc' = [pc EXCEPT ![p] = IF req[p].kind \in DepositClass THEN "count"
                             ELSE "insert"]
  /\ UNCHANGED <<users, transactions, now, disp, nreq, sends, http>>

\* variant: the slot counts the Events of all users
CountAllRows(p) ==
  /\ pc[p] = "count"
  /\ req' = [req EXCEPT ![p].tid = TidBase + Len(transactions)]
  /\ pc' = [pc EXCEPT ![p] = "insert"]
  /\ UNCHANGED <<users, transactions, now, disp, nreq, sends, http>>

\* previous_deposits = get_user_deposits_count; tid_value = 6 + previous_deposits
Count(p) ==
  /\ pc[p] = "count"
  /\ req' = [req EXCEPT ![p].tid = TidBase + DepositsCount(transactions, req[p].actual)]
  /\ pc' = [pc EXCEPT ![p] = "insert"]
  /\ UNCHANGED <<users, transactions, now, disp, nreq, sends, http>>

\* the old_trader_id key of the raw_data handed to process_postback: reg adds
\* it when ensure_user_and_update_clickid replaced a non-empty trader id,
\* dep/redep/withdraw/revenue take it from update_trader_id_if_needed (set only
\* when the UPDATE succeeded); the raw_data of ftm has no such key
RawOldTrader(r) ==
  IF r.kind # "ftm" /\ r.tr_updated THEN r.old_trader ELSE ""

\* variant: recording a withdrawal also takes its amount off the deposit sum
InsertWithdrawDebits(p) ==
  /\ pc[p] = "insert"
  /\ LET r == req[p]
         u == EventUser(r)
     IN /\ transactions' = Append(transactions,
              [user_id |-> u, action |-> r.kind, sum |-> r.sum,
               created_at |-> now, tid |-> r.tid, n |-> r.n,
               old_trader_id |-> RawOldTrader(r)])
        /\ users' = IF r.kind = "withdraw" /\ Exists(users, u)
                       /\ users[u].dep_sum # Null
                    THEN [users EXCEPT ![u].dep_sum = Some(@[1] - r.sum[1])]
                    ELSE users
        /\ req' = [req EXCEPT ![p].txid = Len(transactions) + 1]
        /\ pc' = [pc EXCEPT ![p] = IF r.kind = "withdraw" THEN "read" ELSE "update"]
  /\ UNCHANGED <<now, disp, nreq, sends, http>>

\* create_transaction: INSERT INTO transactions
Insert(p) ==
  /\ pc[p] = "insert"
  /\ LET r == req[p]
     IN /\ transactions' = Append(transactions,
              [user_id |-> EventUser(r), action |-> r.kind, sum |-> r.sum,
               created_at |-> now, tid |-> r.tid, n |-> r.n,
               old_trader_id |-> RawOldTrader(r)])
        /\ req' = [req EXCEPT ![p].txid = Len(transactions) + 1]
        /\ pc' = [pc EXCEPT ![p] = IF r.kind = "withdraw" THEN "read" ELSE "update"]
  /\ UNCHANGED <<users, now, disp, nreq, sends, http>>

\* a handler that does not look at the result of the failed write
InsertFailsIgnored(p) ==
  /\ pc[p] = "insert"
  /\ pc' = [pc EXCEPT ![p] = "read"]
  /\ UNCHANGED <<users, transactions, now, req, disp, nreq, sends, http>>

\* create_transaction raises: {"success": False}, the handler answers error
InsertFails(p) ==
  /\ pc[p] = "insert"
  /\ Finish(p, req[p], "error")
  /\ UNCHANGED <<users, transactions, now, disp, nreq, sends, http>>

\* variant: a revenue event adds its amount to the stored revenue
ApplyEventAccumulate(usr, k, s, t) ==
  CASE k = "ftm" -> [usr EXCEPT !.ftm_time = Some(t)]
    [] k = "reg" -> [usr EXCEPT !.reg_time = Some(t)]
    [] k = "dep" -> [usr EXCEPT !.dep_time = Some(t), !.dep_sum = s]
    [] k = "redep" -> [usr EXCEPT !.redep_time = Some(t), !.redep_sum = s]
    [] k = "revenue" ->
         [usr EXCEPT !.revenue = IF @ = Null THEN s ELSE Some(@[1] + s[1])]
    [] OTHER -> usr

\* the funnel fields update_user_event / update_user_revenue write for a kind
ApplyEvent(usr, k, s, t) ==
  CASE k = "ftm" -> [usr EXCEPT !.ftm_time = Some(t)]
    [] k = "reg" -> [usr EXCEPT !.reg_time = Some(t)]
    [] k = "dep" -> [usr EXCEPT !.dep_time = Some(t), !.dep_sum = s]
    [] k = "redep" -> [usr EXCEPT !.redep_time = Some(t), !.redep_sum = s]
    [] k = "revenue" -> [usr EXCEPT !.revenue = s]
    [] OTHER -> usr

\* update_user_event (second statement of process_postback) or
\* update_user_revenue (revenue_postback); a missing row updates nothing
UpdateUser(p) ==
  /\ pc[p] = "update"
  /\ LET r == req[p]
         u == EventUser(r)
     IN /\ users' = IF Exists(users, u)
                    THEN [users EXCEPT ![u] = ApplyEvent(@, r.kind, r.sum, now)]
                    ELSE users
        /\ req' = [req EXCEPT ![p].user_updated = Exists(users, u)]
  /\ pc' = [pc EXCEPT ![p] = "read"]
  /\ UNCHANGED <<transactions, now, disp, nreq, sends, http>>

\* the UPDATE raises: the result is only logged, the handler goes on
UpdateFails(p) ==
  /\ pc[p] = "update"
  /\ pc' = [pc EXCEPT ![p] = "read"]
  /\ UNCHANGED <<users, transactions, now, req, disp, nreq, sends, http>>

\* ---------------------------------------------------------- dispatch
\* variant: every recorded revenue counts as a change
RevenueChangedAlways(r) == TRUE

\* revenue_changed = previous_revenue != revenue_value
RevenueChanged(r) == r.prev_rev # r.sum \/ r.sum = Some(NotANumber)

\* which targets a handler builds a send for, from what it read of the User
WantsKeitaro(r, subid) ==
  /\ subid # ""
  /\ r.kind \in {"ftm", "reg", "dep", "redep", "revenue"}
  /\ (r.kind = "revenue" => RevenueChanged(r))

WantsChatterfy(r, click) ==
  /\ click # ""
  /\ r.kind \in {"ftm", "dep", "redep", "withdraw"}

\* get_user_sub_id / get_user_clickid / get_user_total_deposits_sum after the
\* write, then the sends are created (send_postbacks_parallel or a single await)
ReadFields(p) ==
  /\ pc[p] = "read"
  /\ LET r == req[p]
         u == EventUser(r)
         subid == IF Exists(users, u) /\ r.kind # "withdraw"
                     /\ (r.kind = "revenue" => RevenueChanged(r))
                  THEN users[u].sub_3 ELSE ""
         click == IF Exists(users, u) /\ r.kind \in {"ftm", "dep", "redep", "withdraw"}
                  THEN users[u].clickid ELSE ""
         total == IF r.kind \in DepositClass THEN TotalDepositsSum(transactions, u)
                  ELSE 0
     IN /\ req' = [req EXCEPT ![p].subid = subid, ![p].user_clickid = click,
                              ![p].total = total]
        /\ disp' = [disp EXCEPT ![p] =
              [t \in Targets |->
                 IF (t = "keitaro" /\ WantsKeitaro(r, subid))
                    \/ (t = "chatterfy" /\ WantsChatterfy(r, click))
                 THEN NewSend
                 ELSE NoSend]]
        /\ sends' = sends \cup
              {[n |-> r.n, target |-> t, kind |-> r.kind, sum |-> r.sum] :
                 t \in {x \in Targets :
                          (x = "keitaro" /\ WantsKeitaro(r, subid))
                          \/ (x = "chatterfy" /\ WantsChatterfy(r, click))}}
  /\ pc' = [pc EXCEPT ![p] = "dispatch"]
  /\ UNCHANGED <<users, transactions, now, nreq, http>>

\* the reads after the insert when a SELECT raises: get_user_sub_id and
\* get_user_clickid catch the exception and return None, and the handler
\* goes on as if the User held no such identifier (subOk / clickOk tell
\* which of the two reads succeeded)
ReadFieldsFails(p, subOk, clickOk) ==
  /\ pc[p] = "read"
  /\ ~(subOk /\ clickOk)
  /\ LET r == req[p]
         u == EventUser(r)
         subid == IF subOk /\ Exists(users, u) /\ r.kind # "withdraw"
                     /\ (r.kind = "revenue" => RevenueChanged(r))
                  THEN users[u].sub_3 ELSE ""
         click == IF clickOk /\ Exists(users, u)
                     /\ r.kind \in {"ftm", "dep", "redep", "withdraw"}
                  THEN users[u].clickid ELSE ""
         total == IF r.kind \in DepositClass THEN TotalDepositsSum(transactions, u)
                  ELSE 0
         wanted == {x \in Targets :
                      (x = "keitaro" /\ WantsKeitaro(r, subid))
                      \/ (x = "chatterfy" /\ WantsChatterfy(r, click))}
     IN /\ req' = [req EXCEPT ![p].subid = subid, ![p].user_clickid = click,
                              ![p].total = total]
        /\ disp' = [disp EXCEPT ![p] =
              [t \in Targets |-> IF t \in wanted THEN NewSend ELSE NoSend]]
        /\ sends' = sends \cup
              {[n |-> r.n, target |-> t, kind |-> r.kind, sum |-> r.sum] :
                 t \in wanted}
  /\ pc' = [pc EXCEPT ![p] = "dispatch"]
  /\ UNCHANGED <<users, transactions, now, nreq, http>>

\* last_exception after a failed attempt with outcome o: every branch builds
\* a plain Exception, only the message differs; the returned error_type is
\* type(last_exception).__name__
LastException(o) ==
  [class |-> "Exception",
   text |-> CASE o = "non200" -> "HTTP <status>: <body>"
              [] o = "timeout" -> "request timeout"
              [] o = "client_error" -> "client error: <e>"
              [] OTHER -> "unknown error: <e>"]

\* the seconds one session.get takes: the session's total timeout when the
\* attempt times out, a round trip otherwise
AttemptSeconds(o) == IF o = "timeout" THEN HttpTimeout ELSE RoundTrip

\* variant: the sleep is not guarded by `attempt < retries`
AttemptResultSleepAfterLast(d, o) ==
  LET n == d.attempt + 1
      went == [d EXCEPT !.attempt = n, !.used = Append(@, d.session),
                        !.elapsed = @ + AttemptSeconds(o)]
  IN IF o = "200" THEN [went EXCEPT !.st = "ok", !.last = ""]
     ELSE IF n >= Retries
     THEN [went EXCEPT !.st = "fail", !.last = o,
                       !.error_type = LastException(o).class,
                       !.waits = Append(@, Delay * n),
                       !.elapsed = went.elapsed + Delay * n]
     ELSE [went EXCEPT !.st = "pending", !.last = o,
                       !.waits = Append(@, Delay * n),
                       !.elapsed = went.elapsed + Delay * n]

\* the error_type of the alert each failure branch passes to send_error_log
AlertType(o) ==
  CASE o = "non200" -> "KEITARO_HTTP_ERROR"
    [] o = "timeout" -> "KEITARO_TIMEOUT"
    [] o = "client_error" -> "KEITARO_CLIENT_ERROR"
    [] OTHER -> "KEITARO_UNKNOWN_ERROR"

\* ENABLE_TELEGRAM_LOGS, "true" unless the environment says otherwise
ENABLE_TELEGRAM_LOGS == TRUE

\* the alerts of a failed attempt n with outcome o: the alert of its branch
\* under `attempt == retries`, and after the loop the closing alert
Alerted(n, o) ==
  IF ENABLE_TELEGRAM_LOGS /\ n = Retries
  THEN <<[error_type |-> AlertType(o), attempt |-> n],
         [error_type |-> "KEITARO_POSTBACK_FAILED", attempt |-> n]>>
  ELSE <<>>

\* variant: the guard `attempt == retries` of the alerts is missing
AttemptResultAlertEach(d, o) ==
  LET n == d.attempt + 1
      went == [d EXCEPT !.attempt = n, !.used = Append(@, d.session),
                        !.elapsed = @ + AttemptSeconds(o)]
  IN IF o = "200" THEN [went EXCEPT !.st = "ok", !.last = ""]
     ELSE IF n >= Retries
     THEN [went EXCEPT !.st = "fail", !.last = o,
                       !.error_type = LastException(o).class,
                       !.alerts = @ \o Alerted(n, o)]
     ELSE [went EXCEPT !.st = "pending", !.last = o,
                       !.waits = Append(@, Delay * n),
                       !.elapsed = went.elapsed + Delay * n,
                       !.alerts = Append(@, [error_type |-> AlertType(o),
                                             attempt |-> n])]

\* the outcomes in which the target answered with status 200: "200", and
\* "200_undecodable" where `await resp.text()`, which precedes the test of
\* resp.status, raises UnicodeDecodeError on the body and the attempt ends in
\* the `except Exception` branch
Status200(o) == o \in {"200", "200_undecodable"}

\* one iteration of the loop of fetch_with_retry for target t: the attempt
\* gets outcome o; HTTP 200 returns ok, anything else is kept as the last
\* exception and the loop goes on until `retries` attempts were made
AttemptResult(d, o) ==
  LET n == d.attempt + 1
      went == [d EXCEPT !.attempt = n, !.used = Append(@, d.session),
                        !.elapsed = @ + AttemptSeconds(o),
                        !.got200 = IF Status200(o) THEN Append(@, n) ELSE @]
  IN IF o = "200" THEN [went EXCEPT !.st = "ok", !.last = ""]
     ELSE IF n >= Retries
     THEN [went EXCEPT !.st = "fail", !.last = o,
                       !.error_type = LastException(o).class,
                       !.alerts = @ \o Alerted(n, o)]
     ELSE [went EXCEPT !.st = "pending", !.last = o,
                       !.waits = Append(@, Delay * n),
                       !.elapsed = went.elapsed + Delay * n,
                       !.alerts = @ \o Alerted(n, o)]

\* variant: every call builds a ClientSession of its own
GetHttpSessionPerCall(h) ==
  [h EXCEPT !.built = @ + 1, !.session = h.built + 1,
            !.open = @ \cup {h.built + 1}]

\* get_http_session: the global session is built on first use and rebuilt
\* when it is None or closed
get_http_session(h) ==
  IF h.session = 0 \/ h.session \notin h.open
  THEN [h EXCEPT !.built = @ + 1, !.session = h.built + 1,
                 !.open = @ \cup {h.built + 1}]
  ELSE h

\* the first iteration follows `session = await get_http_session()`
SendOpened(h, d) ==
  IF d.attempt = 0 THEN [d EXCEPT !.session = get_http_session(h).session] ELSE d

\* the coroutine of a send begins to run `at` seconds after the call of
\* send_postbacks_parallel; asyncio.gather schedules all of them at once
TaskBegun(d, at) == IF d.attempt = 0 THEN [d EXCEPT !.started = at] ELSE d

\* variant: the sends are awaited one after the other, Keitaro after Chatterfy
AttemptSerial(p, t, o) ==
  /\ pc[p] = "dispatch"
  /\ disp[p][t].st = "pending"
  /\ (t = "keitaro" => disp[p]["chatterfy"].st # "pending")
  /\ http' = IF disp[p][t].attempt = 0 THEN get_http_session(http) ELSE http
  /\ disp' = [disp EXCEPT ![p][t] =
                AttemptResult(
                  TaskBegun(SendOpened(http, @),
                            IF t = "keitaro"
                            THEN disp[p]["chatterfy"].started
                                 + disp[p]["chatterfy"].elapsed
                            ELSE 0), o)]
  /\ UNCHANGED <<users, transactions, now, pc, req, nreq, sends>>

Attempt(p, t, o) ==
  /\ pc[p] = "dispatch"
  /\ disp[p][t].st = "pending"
  /\ http' = IF disp[p][t].attempt = 0 THEN get_http_session(http) ELSE http
  /\ disp' = [disp EXCEPT ![p][t] =
                AttemptResult(TaskBegun(SendOpened(http, @), 0), o)]
  /\ UNCHANGED <<users, transactions, now, pc, req, nreq, sends>>

\* what the response says about a target
KeitaroReport(r, d) ==
  CASE r.kind = "withdraw" -> ""
    [] r.kind = "revenue" ->
         IF ~RevenueChanged(r) THEN "skipped"
         ELSE IF d.st = "ok" THEN "sent" ELSE "not_sent"
    [] OTHER ->
         IF r.subid = "" THEN "skipped"
         ELSE IF d.st = "ok" THEN "sent" ELSE "not_sent"

ChatterfyReport(r, d) ==
  IF r.kind \in {"reg", "revenue"} THEN ""
  ELSE IF r.user_clickid = "" THEN "skipped"
  ELSE IF d.st = "ok" THEN "sent" ELSE "not_sent"

\* variant: a failed send is raised to the handler, which answers error
RespondAbortOnFailure(p) ==
  /\ pc[p] = "dispatch"
  /\ \A t \in Targets : disp[p][t].st # "pending"
  /\ Finish(p, [req[p] EXCEPT !.keitaro = KeitaroReport(req[p], disp[p]["keitaro"]),
                              !.chatterfy = ChatterfyReport(req[p], disp[p]["chatterfy"])],
            IF \E t \in Targets : disp[p][t].st = "fail" THEN "error" ELSE "ok")
  /\ UNCHANGED <<users, transactions, now, disp, nreq, sends, http>>

\* every send has returned: the handler builds the "ok" response
Respond(p) ==
  /\ pc[p] = "dispatch"
  /\ \A t \in Targets : disp[p][t].st # "pending"
  /\ Finish(p, [req[p] EXCEPT !.keitaro = KeitaroReport(req[p], disp[p]["keitaro"]),
                              !.chatterfy = ChatterfyReport(req[p], disp[p]["chatterfy"])],
            "ok")
  /\ UNCHANGED <<users, transactions, now, disp, nreq, sends, http>>

\* ------------------------------------------------------------ environment
Tick ==
  /\ now + TickSeconds <= MaxTime
  /\ now' = now + TickSeconds
  /\ UNCHANGED <<users, transactions, pc, req, disp, nreq, sends, http>>

\* no request is being processed
Quiet == \A q \in Procs : pc[q] \in {"idle", "done"}

\* the statements every event handler is made of
Steps(p) ==
  \/ Find(p)
  \/ Ensure(p)
  \/ Create(p)
  \/ PrevRevenue(p)
  \/ DupCheck(p)
  \/ Count(p)
  \/ Insert(p)
  \/ UpdateUser(p)
  \/ ReadFields(p)
  \/ Respond(p)

\* ------------------------------------------------------- specifications
\* SpecSeq: one worker, requests arrive one after the other and time passes
\* between them; every store statement completes
StartSeq ==
  /\ Quiet
  /\ nreq < MaxRequests
  /\ \E k \in Kinds, id \in UserIds, s \in {100, 150} :
       StartReq(1, k, id, "", "", "", s)

NextSeq ==
  \/ Tick /\ Quiet
  \/ StartSeq
  \/ Steps(1)
  \/ \E t \in Targets, o \in {"200", "timeout"} : Attempt(1, t, o)

SpecSeq == Init /\ [][NextSeq]_vars

\* SpecConc: the workers serve requests at the same time, their statements
\* interleave; every store statement completes
StartConc(p) ==
  /\ pc[p] = "idle"
  /\ p = nreq + 1
  /\ \E k \in Kinds, id \in UserIds, s \in {100, 150} :
       StartReq(p, k, id, "", "", "", s)

NextConc ==
  \E p \in Procs :
    \/ StartConc(p)
    \/ Steps(p)
    \/ \E t \in Targets, o \in {"200", "timeout"} : Attempt(p, t, o)

SpecConc == Init /\ [][NextConc]_vars

\* Spec: one worker, requests identify the user by id or click id, and the
\* primary write may fail with a storage error
StartAny ==
  /\ Quiet
  /\ nreq < MaxRequests
  /\ \E k \in Kinds, id \in {NoUser} \cup UserIds, click \in {"", "c1"},
        tr \in {""}, s \in {100} :
       /\ (k \in IdFamily => id # NoUser)
       /\ StartReq(1, k, id, "", click, tr, s)

Next ==
  \/ StartAny
  \/ Steps(1)
  \/ UpdateClickid(1)
  \/ InsertFails(1)
  \/ UpdateFails(1)
  \/ \E t \in Targets, o \in {"200", "timeout"} : Attempt(1, t, o)

Spec == Init /\ [][Next]_vars

\* SpecResolve: the lookup of find_user_for_deposit applied to every small
\* user table and every combination of supplied identifiers
UserRows ==
  {NullUser} \cup
  {[NullUser EXCEPT !.exists = TRUE, !.subscriber_id = sb, !.clickid = c,
                    !.trader_id = t] :
     sb \in {"", "s1"}, c \in {"", "c1"}, t \in {"", "t1"}}

InitResolve ==
  /\ users \in [UserIds -> UserRows]
  /\ transactions = <<>>
  /\ now = 0
  /\ pc = [p \in Procs |-> "idle"]
  /\ req = [p \in Procs |-> IdleReq]
  /\ disp = [p \in Procs |-> NoDispatch]
  /\ nreq = 0
  /\ sends = {}
  /\ http = NoHttp

StartResolve ==
  /\ nreq < MaxRequests
  /\ \E k \in {"dep", "redep", "withdraw"}, id \in {NoUser} \cup UserIds,
        sb \in {"", "s1"}, c \in {"", "c1"}, t \in {"", "t1"} :
       StartReq(1, k, id, sb, c, t, 100)

NextResolve ==
  \/ StartResolve
  \/ Find(1)

SpecResolve == InitResolve /\ [][NextResolve]_vars

\* SpecDispatch: one worker, every store statement completes, and every HTTP
\* attempt may end in any of the outcomes fetch_with_retry distinguishes
StartDispatch ==
  /\ Quiet
  /\ nreq < MaxRequests
  /\ \E k \in Kinds, id \in UserIds : StartReq(1, k, id, "", "", "", 100)

NextDispatch ==
  \/ StartDispatch
  \/ Steps(1)
  \/ \E t \in Targets, o \in Outcomes : Attempt(1, t, o)

SpecDispatch == Init /\ [][NextDispatch]_vars

\* SpecRevenue: one worker receives revenue 100, 100 again and 150 for one
\* user, one request after the other, with any time between them
RevenueScript == <<100, 100, 150>>

StartRevenue ==
  /\ Quiet
  /\ nreq < Len(RevenueScript)
  /\ \E id \in UserIds :
       /\ (nreq > 0 => id = req[1].id)
       /\ StartReq(1, "revenue", id, "", "", "", RevenueScript[nreq + 1])

NextRevenue ==
  \/ Tick /\ Quiet
  \/ StartRevenue
  \/ Find(1)
  \/ Ensure(1)
  \/ Create(1)
  \/ PrevRevenue(1)
  \/ DupCheck(1)
  \/ Insert(1)
  \/ UpdateUser(1)
  \/ ReadFields(1)
  \/ Respond(1)
  \/ \E o \in {"200", "timeout"} : Attempt(1, "keitaro", o)

SpecRevenue == Init /\ [][NextRevenue]_vars

\* SpecTrader: one worker, requests carry an internal id and/or a trader id;
\* every store statement completes
StartTrader ==
  /\ Quiet
  /\ nreq < MaxRequests
  /\ \E k \in Kinds, id \in {NoUser} \cup UserIds, tr \in {"", "t1", "t2"} :
       /\ (k \in IdFamily => id # NoUser)
       /\ StartReq(1, k, id, "", "", tr, 100)

NextTrader ==
  \/ StartTrader
  \/ Steps(1)
  \/ TraderGet(1)
  \/ TraderUpdate(1)
  \/ \E t \in Targets, o \in {"200", "timeout"} : Attempt(1, t, o)

SpecTrader == Init /\ [][NextTrader]_vars

\* SpecRevenueAny: one worker receives revenue requests with positive, zero
\* and negative amounts, with any time between them
RevenueAmounts == {0 - 50, 0, 100}

StartRevenueAny ==
  /\ Quiet
  /\ nreq < MaxRequests
  /\ \E id \in UserIds, s \in RevenueAmounts :
       StartReq(1, "revenue", id, "", "", "", s)

NextRevenueAny ==
  \/ Tick /\ Quiet
  \/ StartRevenueAny
  \/ Find(1)
  \/ Ensure(1)
  \/ Create(1)
  \/ PrevRevenue(1)
  \/ DupCheck(1)
  \/ Insert(1)
  \/ UpdateUser(1)
  \/ ReadFields(1)
  \/ Respond(1)
  \/ \E o \in {"200", "timeout"} : Attempt(1, "keitaro", o)

SpecRevenueAny == Init /\ [][NextRevenueAny]_vars

\* SpecManager: one worker receives manager-assignment requests
ManagerLabels == {"manager1", "manager2"}

StartAssign ==
  /\ Quiet
  /\ nreq < MaxRequests
  /\ \E id \in UserIds, click \in {"", "c2"}, m \in ManagerLabels :
       StartManager(1, id, click, m)

NextManager ==
  \/ StartAssign
  \/ Ensure(1)
  \/ Create(1)
  \/ UpdateClickid(1)
  \/ ManagerAssign(1)

SpecManager == Init /\ [][NextManager]_vars

\* SpecSanitize: reg and dep requests arrive one at a time with identifier
\* parameters as a tracker sends them: unresolved placeholders, blanks, the
\* parameter's name, padded and clean values.
RawSubscribers == {"{subscriber_id}", " s1 "}
RawClickids == {" {clickid} ", "ClickId"}
RawTraders == {"  ", "{trader_id}", "TRADER_ID", " t1 "}

StartSanitize ==
  /\ Quiet
  /\ nreq < MaxRequests
  /\ \E k \in {"reg", "dep"}, id \in {NoUser} \cup UserIds,
        sub \in RawSubscribers, click \in RawClickids, tr \in RawTraders :
       /\ (k \in IdFamily => id # NoUser)
       /\ StartReq(1, k, id, sub, click, tr, 100)

NextSanitize ==
  \/ StartSanitize
  \/ Find(1) \/ Ensure(1) \/ Create(1)
  \/ TraderGet(1) \/ TraderUpdate(1)
  \/ DupCheck(1) \/ Count(1) \/ Insert(1) \/ UpdateUser(1)
  \/ ReadFields(1) \/ Respond(1)
  \/ \E t \in Targets : Attempt(1, t, "200")

SpecSanitize == Init /\ [][NextSanitize]_vars

\* SpecCreate: the workers serve, at the same time, first-message and
\* deposit requests for internal ids that may not be known yet.
StartCreate(p) ==
  /\ pc[p] = "idle"
  /\ p = nreq + 1
  /\ \E k \in {"ftm", "dep"}, id \in UserIds :
       StartReq(p, k, id, "", "", "", 100)

NextCreate ==
  \E p \in Procs :
    \/ StartCreate(p) \/ Find(p) \/ Ensure(p) \/ Create(p)
    \/ DupCheck(p) \/ Count(p) \/ Insert(p) \/ UpdateUser(p)
    \/ ReadFields(p) \/ Respond(p)
    \/ \E t \in Targets : Attempt(p, t, "200")

SpecCreate == Init /\ [][NextCreate]_vars

\* close_http_session: closes the global session if there is an open one
close_http_session(h) ==
  IF h.session # 0 /\ h.session \in h.open
  THEN [h EXCEPT !.open = @ \ {h.session}, !.session = 0]
  ELSE h

\* the shutdown part of lifespan: the server has stopped serving and the
\* requests in flight have finished
Shutdown ==
  /\ Quiet
  /\ ~http.down
  /\ http' = [close_http_session(http) EXCEPT !.down = TRUE]
  /\ UNCHANGED <<users, transactions, now, pc, req, disp, nreq, sends>>

\* SpecHttp: one worker process serves first-message requests concurrently
\* until it is shut down; the targets answer or the connection fails.
StartHttp(p) ==
  /\ pc[p] = "idle"
  /\ p = nreq + 1
  /\ ~http.down
  /\ \E id \in UserIds : StartReq(p, "ftm", id, "", "", "", 100)

NextHttp ==
  \/ Shutdown
  \/ \E p \in Procs :
       \/ StartHttp(p) \/ Ensure(p) \/ Create(p) \/ DupCheck(p) \/ Insert(p)
       \/ UpdateUser(p) \/ ReadFields(p) \/ Respond(p)
       \/ \E t \in Targets, o \in {"200", "client_error"} : Attempt(p, t, o)

SpecHttp == Init /\ [][NextHttp]_vars

\* SpecReadFault: requests arrive one at a time; the reads of the User's
\* identifiers that follow the insert may fail.
StartReadFault ==
  /\ Quiet
  /\ nreq < MaxRequests
  /\ \E k \in {"ftm", "dep"}, id \in UserIds, s \in {100, 150} :
       StartReq(1, k, id, "", "", "", s)

NextReadFault ==
  \/ StartReadFault
  \/ Find(1) \/ Ensure(1) \/ Create(1) \/ DupCheck(1) \/ Count(1) \/ Insert(1)
  \/ UpdateUser(1) \/ ReadFields(1) \/ Respond(1)
  \/ \E a, b \in BOOLEAN : ReadFieldsFails(1, a, b)
  \/ \E t \in Targets, o \in {"200", "timeout"} : Attempt(1, t, o)

SpecReadFault == Init /\ [][NextReadFault]_vars

\* SpecDupFault: requests arrive one at a time, the SELECT of the duplicate
\* check may raise, every other store statement completes
StartDupFault ==
  /\ Quiet
  /\ nreq < MaxRequests
  /\ \E k \in Kinds, id \in UserIds : StartReq(1, k, id, "", "", "", 100)

NextDupFault ==
  \/ StartDupFault
  \/ Steps(1)
  \/ DupCheckFails(1)
  \/ \E t \in Targets, o \in {"200", "timeout"} : Attempt(1, t, o)

SpecDupFault == Init /\ [][NextDupFault]_vars

\* SpecBody: one worker, every store statement completes; a target answers
\* 200 with a readable body, 200 with a body that does not decode, or not
\* in time
StartBody ==
  /\ Quiet
  /\ nreq < MaxRequests
  /\ \E k \in {"ftm", "dep"}, id \in UserIds : StartReq(1, k, id, "", "", "", 100)

NextBody ==
  \/ StartBody
  \/ Find(1) \/ Ensure(1) \/ Create(1) \/ DupCheck(1) \/ Count(1) \/ Insert(1)
  \/ UpdateUser(1) \/ ReadFields(1) \/ Respond(1)
  \/ \E t \in Targets, o \in {"200", "200_undecodable", "timeout"} :
       Attempt(1, t, o)

SpecBody == Init /\ [][NextBody]_vars

\* SpecAmount: one worker receives dep, redep, withdraw and revenue requests
\* for the tracked lead whose sum is absent, empty, a word, zero, negative,
\* positive or the word nan
RawSums ==
  {Null, Some(""), Some("abc"), Some("0"), Some("-5"), Some("100"), Some("nan")}

StartAmount ==
  /\ Quiet
  /\ nreq < MaxRequests
  /\ \E k \in DepFamily, sum_value \in RawSums :
       StartRaw(1, k, Some("1"), "", "", "", sum_value)

NextAmount ==
  \/ StartAmount
  \/ Find(1)
  \/ PrevRevenue(1)
  \/ DupCheck(1)
  \/ Count(1)
  \/ Insert(1)
  \/ UpdateUser(1)
  \/ ReadFields(1)
  \/ Respond(1)
  \/ \E t \in Targets, o \in {"200", "timeout"} : Attempt(1, t, o)

SpecAmount == Init /\ [][NextAmount]_vars

\* SpecRawId: one worker receives dep, redep, withdraw and revenue requests
\* whose id is absent, empty, a word, zero, or the numeral of a User or of
\* nobody, with or without the click id of the tracked lead
RawIds == {Null, Some(""), Some("abc"), Some("0"), Some("1"), Some("2")}

StartRawId ==
  /\ Quiet
  /\ nreq < MaxRequests
  /\ \E k \in DepFamily, id_value \in RawIds, click \in {"", "c1"} :
       StartRaw(1, k, id_value, "", click, "", Some("100"))

NextRawId ==
  \/ StartRawId
  \/ Find(1)
  \/ Ensure(1)
  \/ Create(1)
  \/ UpdateClickid(1)
  \/ PrevRevenue(1)
  \/ DupCheck(1)
  \/ Count(1)
  \/ Insert(1)
  \/ UpdateUser(1)
  \/ ReadFields(1)
  \/ Respond(1)
  \/ \E t \in Targets, o \in {"200", "timeout"} : Attempt(1, t, o)

SpecRawId == Init /\ [][NextRawId]_vars

\* SpecClick: the workers serve, at the same time, withdrawal requests that
\* carry an internal id and a click id; every store statement completes
StartClick(p) ==
  /\ pc[p] = "idle"
  /\ p = nreq + 1
  /\ \E id \in UserIds, click \in {"c1", "c2"} :
       StartReq(p, "withdraw", id, "", click, "", 100)

NextClick ==
  \E p \in Procs :
    \/ StartClick(p)
    \/ Find(p)
    \/ Ensure(p)
    \/ Create(p)
    \/ UpdateClickid(p)
    \/ DupCheck(p)
    \/ Insert(p)
    \/ ReadFields(p)
    \/ Respond(p)
    \/ Attempt(p, "chatterfy", "200")

SpecClick == Init /\ [][NextClick]_vars

\* ---------------------------------------------------------------- claims
\* rows of the log that record the event of request r (same user, same kind
\* and, for amount-bearing kinds, same amount) inside the window that ends
\* when r was checked at time t
SameEventRows(r, t) ==
  {i \in 1..Len(transactions) :
     /\ transactions[i].user_id = EventUser(r)
     /\ transactions[i].action = r.kind
     /\ (r.kind \in DepFamily => transactions[i].sum = r.sum)
     /\ t - transactions[i].created_at < Window(r.kind)}

C2_OneOfTwoConcurrent ==
  \A p, q \in Procs :
    (/\ p # q
     /\ req[p].kind = req[q].kind
     /\ req[p].kind # ""
     /\ EventUser(req[p]) = EventUser(req[q])
     /\ req[p].sum = req[q].sum) =>
      /\ ~(req[p].txid # 0 /\ req[q].txid # 0)
      /\ ~(\E s1, s2 \in sends : s1.n = req[p].n /\ s2.n = req[q].n)

\* the dep and redep rows of user u among the first i - 1 rows of the log
EarlierDeposits(u, i) ==
  {j \in 1..(i - 1) :
     transactions[j].user_id = u /\ transactions[j].action \in DepositClass}

\* C3: the k-th deposit event (dep or redep) recorded for a user carries tid
\* slot 6 + (k - 1), so the slots of a user's deposits are strictly
\* increasing, also when the deposits are served at the same time.
C3_TidStrictlyIncreasing ==
  \A i \in 1..Len(transactions) :
    transactions[i].action \in DepositClass =>
      transactions[i].tid =
        TidBase + Cardinality(EarlierDeposits(transactions[i].user_id, i))

\* C8: every Event row belongs to a User row: recording an event for an id
\* that has no User inserts nothing.
C8_EventOwnerExists ==
  \A i \in 1..Len(transactions) : Exists(users, transactions[i].user_id)

\* the funnel fields of User row usr hold the event of log row e
SnapshotHolds(usr, e) ==
  CASE e.action = "ftm" -> usr.ftm_time # Null
    [] e.action = "reg" -> usr.reg_time # Null
    [] e.action = "dep" -> usr.dep_time # Null /\ usr.dep_sum # Null
    [] e.action = "redep" -> usr.redep_sum # Null
    [] e.action = "revenue" -> usr.revenue # Null
    [] OTHER -> TRUE

\* C9: the Event row and the update of the User funnel fields become visible
\* together: in no state of the store is there an Event row whose User does
\* not hold the matching funnel field.
C9_EventAndSnapshotTogether ==
  \A i \in 1..Len(transactions) :
    SnapshotHolds(users[transactions[i].user_id], transactions[i])

\* C7: a send exists for a request only if the request's Event row exists, and
\* a request whose insert failed with a storage error is answered "error"
\* with no send created and no attempt made.
C7_DispatchImpliesRecorded ==
  /\ \A s \in sends :
       \E i \in 1..Len(transactions) : transactions[i].n = s.n
  /\ \A p \in Procs :
       /\ (\E t \in Targets : disp[p][t].st # "none") =>
            (/\ req[p].txid \in 1..Len(transactions)
             /\ transactions[req[p].txid].n = req[p].n)
       /\ (pc[p] = "done" /\ req[p].tcheck # Null /\ req[p].txid = 0) =>
            (/\ req[p].status \in {"error", "duplicate"}
             /\ \A t \in Targets : disp[p][t].st = "none" /\ disp[p][t].attempt = 0)

\* the insert of a deposit of user 1 (who holds a click id and a sub-id) failed:
\* the request ended "error" and nothing was sent
C7_Witness ==
  /\ pc[1] = "done"
  /\ req[1].kind = "dep"
  /\ req[1].actual = 1
  /\ req[1].tcheck # Null
  /\ req[1].txid = 0
  /\ req[1].status = "error"
  /\ Len(transactions) = 0
  /\ sends = {}

\* the Users each supplied identifier of request r matches, in the order
\* internal id, subscriber id, click id, trader id
MatchesOf(r) ==
  <<IF r.id # NoUser THEN {u \in UserIds : users[u].exists /\ u = r.id} ELSE {},
    IF r.subscriber_id # ""
    THEN {u \in UserIds : users[u].exists /\ users[u].subscriber_id = r.subscriber_id}
    ELSE {},
    IF r.clickid # ""
    THEN {u \in UserIds : users[u].exists /\ users[u].clickid = r.clickid}
    ELSE {},
    IF r.trader_id # ""
    THEN {u \in UserIds : users[u].exists /\ users[u].trader_id = r.trader_id}
    ELSE {}>>

ReportOf(p, t) == IF t = "keitaro" THEN req[p].keitaro ELSE req[p].chatterfy

\* C5: for an ftm/dep/redep event with two targets, a target whose send is
\* pending can make its attempt whatever the state of the other target's
\* send, and when one target failed on every attempt while the other got
\* HTTP 200 the response reports the first as not sent and the second as sent.
C5_DispatchIsolation ==
  \A p \in Procs : \A a, b \in Targets :
    (a # b /\ req[p].kind \in {"ftm", "dep", "redep"}) =>
      /\ (pc[p] = "dispatch" /\ disp[p][b].st = "pending") =>
           ENABLED Attempt(p, b, "200")
      /\ (pc[p] = "done" /\ disp[p][a].st = "fail" /\ disp[p][b].st = "ok") =>
           (/\ req[p].status = "ok"
            /\ ReportOf(p, a) = "not_sent"
            /\ ReportOf(p, b) = "sent"
            /\ disp[p][a].attempt = Retries)

\* a deposit whose Chatterfy send timed out on both attempts while the
\* Keitaro send got HTTP 200 on its first attempt
C5_Witness ==
  /\ pc[1] = "done"
  /\ req[1].kind = "dep"
  /\ disp[1]["chatterfy"].st = "fail"
  /\ disp[1]["chatterfy"].attempt = Retries
  /\ disp[1]["chatterfy"].last = "timeout"
  /\ disp[1]["keitaro"].st = "ok"
  /\ disp[1]["keitaro"].attempt = 1
  /\ req[1].chatterfy = "not_sent"
  /\ req[1].keitaro = "sent"

\* what the response says about a target whose send returned with state st
OutcomeReport(st) == IF st = "ok" THEN "sent" ELSE "not_sent"

\* C6: a request whose Event row was inserted ends with status "ok", after
\* every send it created has returned, and its response reports each target
\* a send was created for by that send's own outcome, whatever targets failed.
C6_FailureNeverAborts ==
  \A p \in Procs :
    (pc[p] = "done" /\ req[p].txid # 0) =>
      /\ req[p].status = "ok"
      /\ \A t \in Targets :
           /\ disp[p][t].st # "pending"
           /\ disp[p][t].st # "none" => ReportOf(p, t) = OutcomeReport(disp[p][t].st)

\* an ftm event was recorded and both of its sends failed on every attempt
C6_Witness ==
  /\ pc[1] = "done"
  /\ req[1].kind = "ftm"
  /\ req[1].txid # 0
  /\ \A t \in Targets : disp[1][t].st = "fail" /\ disp[1][t].attempt = Retries
  /\ req[1].status = "ok"

\* the three scripted revenue requests have been answered
ScriptDone == nreq = Len(RevenueScript) /\ pc[1] = "done"

\* the amounts of the sends created so far, by request number
SentAmounts == {<<s.n, s.sum>> : s \in sends}

EarlierRevenue(i) ==
  {j \in 1..(i - 1) :
     /\ transactions[j].user_id = transactions[i].user_id
     /\ transactions[j].action = "revenue"}

\* the greatest element of a non-empty set of numbers
MaxOf(S) == CHOOSE x \in S : \A y \in S : y <= x

RevenueRows(u) ==
  {i \in 1..Len(transactions) :
     transactions[i].user_id = u /\ transactions[i].action = "revenue"}

\* the amount of the last revenue row of user u, nothing if there is none
LastRevenue(u) ==
  IF RevenueRows(u) = {} THEN Null ELSE transactions[MaxOf(RevenueRows(u))].sum

Unidentified(r) ==
  /\ r.kind \in DepFamily
  /\ r.id = NoUser
  /\ \A k \in 1..4 : MatchesOf(r)[k] = {}

\* C13: every step of a dep/redep/withdraw/revenue request that supplies no
\* internal id and whose other identifiers are absent or match no User
\* leaves Users, Event log and sends as they are, and the request ends with
\* status "error".
C13_NoUserNoWrite ==
  [][\A p \in Procs :
       (Unidentified(req'[p]) /\ (pc'[p] # pc[p] \/ req'[p] # req[p])) =>
         /\ users' = users
         /\ transactions' = transactions
         /\ sends' = sends
         /\ disp'[p] = NoDispatch
         /\ pc'[p] \in {"find", "done"}
         /\ (pc'[p] = "done" => req'[p].status = "error")]_vars

\* a withdrawal without any identifier was answered "error"; nothing was
\* written
C13_Witness ==
  /\ pc[1] = "done"
  /\ req[1].kind = "withdraw"
  /\ req[1].id = NoUser
  /\ req[1].trader_id = ""
  /\ req[1].status = "error"
  /\ users = SeedUsers
  /\ transactions = <<>>
  /\ sends = {}

\* C14: once the first-message, registration or first-deposit timestamp of a
\* User is set, no step changes it.
C14_TimestampsSetOnce ==
  [][\A u \in UserIds :
       /\ users[u].ftm_time # Null => users'[u].ftm_time = users[u].ftm_time
       /\ users[u].reg_time # Null => users'[u].reg_time = users[u].reg_time
       /\ users[u].dep_time # Null => users'[u].dep_time = users[u].dep_time]_vars

RECURSIVE SumOfKind(_, _, _)
\* the sum of the amounts of the rows of kind k of user u among the first i
\* rows of the log
SumOfKind(u, k, i) ==
  IF i = 0 THEN 0
  ELSE SumOfKind(u, k, i - 1) +
       (IF transactions[i].user_id = u /\ transactions[i].action = k
        THEN transactions[i].sum[1] ELSE 0)

\* stored sum v agrees with total t (an unset sum stands for zero)
AgreesWith(v, t) == IF v = Null THEN t = 0 ELSE v[1] = t

\* C15: when no request is being processed, each User's deposit sum is the
\* sum of the amounts of the user's dep Events and the re-deposit sum is the
\* sum of the amounts of the user's redep Events.
C15_SumsAccumulate ==
  Quiet =>
    \A u \in UserIds :
      users[u].exists =>
        /\ AgreesWith(users[u].dep_sum, SumOfKind(u, "dep", Len(transactions)))
        /\ AgreesWith(users[u].redep_sum, SumOfKind(u, "redep", Len(transactions)))

Funnel(usr) ==
  <<usr.ftm_time, usr.reg_time, usr.dep_time, usr.dep_sum, usr.redep_time,
    usr.redep_sum, usr.revenue>>

\* the rows of the log written by request number n
RowsOf(T, n) == {i \in 1..Len(T) : T[i].n = n}

\* C17: no step of a withdrawal request changes a funnel field of any User,
\* and an accepted withdrawal has appended exactly one Event row, a
\* withdraw row with the request's user and amount.
C17_WithdrawOnlyAppends ==
  [][\A p \in Procs :
       (req'[p].kind = "withdraw" /\ (pc'[p] # pc[p] \/ req'[p] # req[p])) =>
         /\ \A u \in UserIds : Funnel(users'[u]) = Funnel(users[u])
         /\ Len(transactions') \in {Len(transactions), Len(transactions) + 1}
         /\ (pc'[p] = "done" /\ req'[p].status = "ok") =>
              \E i \in 1..Len(transactions') :
                /\ RowsOf(transactions', req'[p].n) = {i}
                /\ transactions'[i].action = "withdraw"
                /\ transactions'[i].user_id = req'[p].actual
                /\ transactions'[i].sum = req'[p].sum]_vars

\* a withdrawal of User 1 was accepted after a deposit of User 1: the log
\* holds both rows and the deposit fields are those the deposit wrote
C17_Witness ==
  /\ pc[1] = "done"
  /\ req[1].kind = "withdraw"
  /\ req[1].status = "ok"
  /\ Len(transactions) = 2
  /\ transactions[1].action = "dep" /\ transactions[1].user_id = 1
  /\ transactions[2].action = "withdraw" /\ transactions[2].user_id = 1
  /\ users[1].dep_sum = transactions[1].sum
  /\ users[1].dep_time = Some(transactions[1].created_at)

\* C18: a manager-assignment request that has been answered got status
\* "ok", the User's manager label is the requested one and the log holds a
\* manager_assign Event of the request.
C18_ManagerAssigned ==
  \A p \in Procs :
    (pc[p] = "done" /\ req[p].kind = "manager") =>
      /\ req[p].status = "ok"
      /\ users[req[p].id].manager = req[p].manager
      /\ \E i \in RowsOf(transactions, req[p].n) :
           transactions[i].action = "manager_assign"

\* C19: no step changes a non-empty click id of a User.
C19_ClickidSetOnce ==
  [][\A u \in UserIds :
       (users[u].exists /\ users[u].clickid # "") =>
         users'[u].clickid = users[u].clickid]_vars

\* two requests for User 2 carried different click ids: the first created
\* the User with click id c2, the second resolved to User 2 and ran
\* update_user_clickid with c1, and the stored click id is still c2
C19_Witness ==
  \E p, q \in Procs :
    /\ p # q
    /\ req[p].id = 2 /\ req[q].id = 2
    /\ req[p].clickid = "c2"
    /\ req[q].clickid = "c1"
    /\ req[q].actual = 2
    /\ pc[q] \notin {"idle", "find", "ensure", "create", "click1", "click2"}
    /\ users[2].clickid = "c2"

\* C20: every request that has been answered after replacing a non-empty
\* trader id of a User left an Event whose raw snapshot holds the replaced
\* value, whatever status it was answered with.
C20_OldTraderRetained ==
  \A p \in Procs :
    (pc[p] = "done" /\ req[p].tr_updated /\ req[p].old_trader # "") =>
      \E i \in RowsOf(transactions, req[p].n) :
        transactions[i].old_trader_id = req[p].old_trader
\* the values of parameter name that stand for "no value": blank texts,
\* brace-enclosed placeholder names, the name itself in any letter case
Unusable(name) ==
  CASE name = "subscriber_id" ->
         {"", "  ", "{subscriber_id}", "{trader_id}", "{clickid}", " {clickid} ",
          "subscriber_id", "Subscriber_Id"}
    [] name = "clickid" ->
         {"", "  ", "{subscriber_id}", "{trader_id}", "{clickid}", " {clickid} ",
          "clickid", "ClickId"}
    [] name = "trader_id" ->
         {"", "  ", "{subscriber_id}", "{trader_id}", "{clickid}", " {clickid} ",
          "trader_id", "TRADER_ID"}

IdentifierNames == {"subscriber_id", "clickid", "trader_id"}

\* C21: a request whose identifier parameter came as a placeholder, a blank
\* or the parameter's name works with that identifier absent, and no User
\* ever holds such a value as an identifier.
C21_PlaceholderIsAbsent ==
  /\ \A p \in Procs : \A f \in IdentifierNames :
        (pc[p] # "idle" /\ req[p].raw[f] \in Unusable(f)) => req[p][f] = ""
  /\ \A u \in UserIds :
        /\ users[u].subscriber_id \notin Unusable("subscriber_id") \ {""}
        /\ users[u].clickid \notin Unusable("clickid") \ {""}
        /\ users[u].trader_id \notin Unusable("trader_id") \ {""}

\* a reg request for the unknown id 2 came with all three identifiers
\* unusable; User 2 was created with none of them and the request was
\* answered ok
C21_Witness ==
  /\ pc[1] = "done"
  /\ req[1].kind = "reg"
  /\ req[1].id = 2
  /\ req[1].raw.subscriber_id = "{subscriber_id}"
  /\ req[1].raw.clickid = " {clickid} "
  /\ req[1].raw.trader_id = "TRADER_ID"
  /\ req[1].created
  /\ req[1].status = "ok"
  /\ users[2].exists
  /\ users[2].subscriber_id = "" /\ users[2].clickid = "" /\ users[2].trader_id = ""
\* C22: in every reachable store, each combination of identifiers resolves
\* to one internal id only, for the lookup of ftm/reg/dep/redep/withdraw and
\* for the lookup of revenue: the row a lookup returns is determined by the
\* store and the identifiers, so resolving twice gives the same id.
C22_ResolveDeterministic ==
  \A id \in {NoUser} \cup UserIds, sub \in {"", "s1"}, click \in {"", "c1"},
     tr \in {"", "t1", "t2"} :
    /\ Cardinality(FindUserSet(users, id, sub, click, tr)) = 1
    /\ Cardinality(RevenueFindSet(users, id, sub, click, tr)) = 1
\* request p has gone through ensure_user_exists
Ensured(p) == pc[p] \notin {"idle", "find", "ensure", "create"} /\ req[p].ens # NoUser

\* C23: of the requests that name the same internal id at most one creates
\* the User row; a request that went through ensure_user_exists either
\* created the row or treats it as existing, the row is there, and no request
\* is answered error.
C23_OneRowPerId ==
  /\ \A p, q \in Procs :
        (p # q /\ req[p].id = req[q].id /\ req[p].created) => ~req[q].created
  /\ \A p \in Procs :
        Ensured(p) =>
          /\ req[p].created # req[p].existed
          /\ users[req[p].ens].exists
  /\ \A p \in Procs : pc[p] = "done" => req[p].status # "error"

\* two first-message requests for the unknown id 2 were in create_user_if_not_exists
\* together: request 1 created the row, request 2 lost the insert and treats
\* the User as existing; both have been answered and neither with an error
C23_Witness ==
  /\ req[1].id = 2 /\ req[2].id = 2
  /\ req[1].kind = "ftm" /\ req[2].kind = "ftm"
  /\ req[1].created
  /\ ~req[2].created /\ req[2].existed /\ req[2].ens = 2
  /\ pc[1] = "done" /\ pc[2] = "done"
  /\ req[1].status # "error" /\ req[2].status # "error"
\* C24: the first attempt of a send goes through the pooled session the send
\* obtained from get_http_session, and no later attempt of the same send
\* goes through that session.
C24_RetryOnFreshConnection ==
  \A p \in Procs, t \in Targets :
    LET d == disp[p][t]
    IN /\ (Len(d.used) >= 1 => d.used[1] = d.session)
       /\ \A i \in 2..Len(d.used) : d.used[i] # d.session

\* C25: whenever the last attempt of a send fails with a connection error
\* after the attempt before it failed with a connection error too, the
\* pooled session the send used is no longer open afterwards.
C25_PoolTornDown ==
  [][\A p \in Procs, t \in Targets :
       (/\ disp[p][t].st = "pending"
        /\ disp[p][t].attempt = Retries - 1
        /\ disp[p][t].last = "client_error"
        /\ disp'[p][t].st = "fail"
        /\ disp'[p][t].last = "client_error")
       => disp'[p][t].session \notin http'.open]_vars
FailureClass(o) ==
  CASE o = "non200" -> "rejected"
    [] o = "timeout" -> "timeout"
    [] o = "client_error" -> "connection"
    [] o = "unknown_error" -> "unknown"

\* C27: a send that returned ok carries no error kind, and two sends that
\* failed with outcomes of different failure classes carry different error
\* kinds.
C27_ErrorKindPerClass ==
  /\ \A p \in Procs, t \in Targets :
        disp[p][t].st = "ok" => disp[p][t].error_type = ""
  /\ \A p, q \in Procs, t, u \in Targets :
        (/\ disp[p][t].st = "fail"
         /\ disp[q][u].st = "fail"
         /\ FailureClass(disp[p][t].last) # FailureClass(disp[q][u].last))
        => disp[p][t].error_type # disp[q][u].error_type
\* the sessions the attempts made so far went through
SessionsUsed ==
  UNION {{disp[p][t].used[i] : i \in 1..Len(disp[p][t].used)} :
           p \in Procs, t \in Targets}

\* C28: no session is built before the first send, at most one session is
\* open at any time and it is the global one, all attempts between startup
\* and shutdown went through one and the same session, and after shutdown
\* no session is open.
C28_OnePooledSession ==
  /\ (SessionsUsed = {} => http.built = 0)
  /\ Cardinality(http.open) <= 1
  /\ http.open \subseteq {http.session}
  /\ Cardinality(SessionsUsed) <= 1
  /\ http.built <= 1
  /\ (http.down => http.open = {} /\ http.session = 0)

\* two requests served at the same time sent to Keitaro through the same
\* session, the only one ever built; the process has been shut down and no
\* session is open
C28_Witness ==
  /\ http.down
  /\ http.built = 1
  /\ http.open = {}
  /\ disp[1]["keitaro"].used = <<1, 1>>
  /\ disp[2]["keitaro"].used = <<1>>
  /\ disp[2]["chatterfy"].used = <<1>>
\* the identifier target t needs, as the User of request r holds it
HeldFor(r, t) ==
  LET u == EventUser(r)
  IN IF ~Exists(users, u) THEN ""
     ELSE IF t = "keitaro" THEN users[u].sub_3 ELSE users[u].clickid

\* C29: when a first-message or deposit request that recorded its Event has
\* been answered, every target whose identifier the User holds has received
\* at least one attempt and its send ended in success or exhausted retries.
C29_DispatchCompletes ==
  \A p \in Procs :
    (pc[p] = "done" /\ req[p].txid # 0 /\ req[p].kind \in {"ftm", "dep"}) =>
      \A t \in Targets :
        HeldFor(req[p], t) # "" =>
          /\ disp[p][t].attempt >= 1
          /\ disp[p][t].st \in {"ok", "fail"}
\* the time after the call of send_postbacks_parallel at which a send ended
Ended(d) == d.started + d.elapsed

ReportedTargets(k) ==
  (IF k \in {"ftm", "reg", "dep", "redep", "revenue"} THEN {"keitaro"} ELSE {})
  \cup (IF k \in {"ftm", "dep", "redep", "withdraw"} THEN {"chatterfy"} ELSE {})

\* C31: in a request answered ok, a target the handler reports on and for
\* which the User holds no identifier has received no attempt and is
\* reported skipped.
C31_NoIdentifierSkipped ==
  \A p \in Procs :
    (pc[p] = "done" /\ req[p].status = "ok") =>
      \A t \in ReportedTargets(req[p].kind) :
        HeldFor(req[p], t) = "" =>
          /\ disp[p][t].attempt = 0
          /\ ReportOf(p, t) = "skipped"
\* request p was a deposit of 100 that created its User and has been
\* answered; the User exists and the log holds exactly one Event of the
\* request: a deposit of 100 for that User in the slot for zero prior deposits
NewDepositRecorded(p) ==
  /\ users[req[p].id].exists
  /\ req[p].status = "ok"
  /\ Cardinality(RowsOf(transactions, req[p].n)) = 1
  /\ \A i \in RowsOf(transactions, req[p].n) :
        /\ transactions[i].user_id = req[p].id
        /\ transactions[i].action = "dep"
        /\ transactions[i].sum = Some(100)
        /\ transactions[i].tid = TidBase

NewDeposit(p) ==
  /\ pc[p] = "done"
  /\ req[p].kind = "dep"
  /\ req[p].created
  /\ req[p].sum = Some(100)
  /\ req[p].raw.subscriber_id = ""
  /\ req[p].raw.clickid = ""
  /\ req[p].raw.trader_id = ""

\* C32 as stated: a deposit of 100 for a brand-new internal id with no other
\* identifiers creates the User, records one deposit Event of 100 in the
\* initial slot, and a send is made to each of the two targets.
C32_NewDepositDispatched ==
  \A p \in Procs :
    NewDeposit(p) =>
      /\ NewDepositRecorded(p)
      /\ \A t \in Targets : disp[p][t].attempt >= 1

\* C32 amended: such a deposit creates the User and records one deposit
\* Event of 100 in the initial slot; the new User holds neither a sub-id nor
\* a click id, so no target receives an attempt and both are reported skipped.
C32_NewDepositRecordedNoTarget ==
  \A p \in Procs :
    NewDeposit(p) =>
      /\ NewDepositRecorded(p)
      /\ \A t \in Targets :
            /\ HeldFor(req[p], t) = ""
            /\ disp[p][t].attempt = 0
            /\ ReportOf(p, t) = "skipped"
      /\ \A x \in sends : x.n # req[p].n

\* the second request served was a deposit of 100 for the unknown id 2
C32_Witness ==
  /\ NewDeposit(1)
  /\ req[1].id = 2
  /\ req[1].n = 2
  /\ req[1].tid = TidBase
  /\ req[1].keitaro = "skipped" /\ req[1].chatterfy = "skipped"
\* C33: a request answered duplicate has written nothing: it created no
\* User, replaced no trader id, and left no Event row and no send.
C33_DuplicateIsNoOp ==
  \A p \in Procs :
    (pc[p] = "done" /\ req[p].status = "duplicate") =>
      /\ ~req[p].created
      /\ ~req[p].tr_updated
      /\ RowsOf(transactions, req[p].n) = {}
      /\ \A x \in sends : x.n # req[p].n
      /\ \A t \in Targets : disp[p][t].attempt = 0
\* a supplied sum is numeric when it is the numeral of a number
NumericSum(sum_value) == sum_value # Null /\ sum_value[1] \in DOMAIN IntLiteral

\* C34: a dep, redep or withdraw request whose sum is missing, empty,
\* non-numeric, zero or negative carries the default amount 59 and is not
\* answered with an error; a revenue request keeps a numeric sum as given,
\* zero and negative included, and one whose sum is missing or non-numeric is
\* answered with an error and leaves no Event.
C34_AmountParsing ==
  \A p \in Procs :
    LET r == req[p]
        v == r.raw.sum
    IN (pc[p] # "idle" /\ r.kind \in DepFamily) =>
         IF r.kind # "revenue"
         THEN /\ (~NumericSum(v) \/ IntLiteral[v[1]] <= 0) =>
                   r.sum = Some(DefaultSum)
              /\ r.status # "error"
         ELSE /\ NumericSum(v) =>
                   /\ r.sum = Some(IntLiteral[v[1]])
                   /\ r.status # "error"
              /\ ~NumericSum(v) =>
                   /\ pc[p] = "done"
                   /\ r.status = "error"
                   /\ RowsOf(transactions, r.n) = {}
\* C35: a dep, redep, withdraw or revenue request whose id is the empty text
\* is handled as one without id: it has no internal id, and when it carries
\* the click id of a User it is not answered with an error, it is resolved to
\* a User holding that click id, and once accepted its Event row belongs to
\* that User.
C35_EmptyIdIsAbsent ==
  \A p \in Procs :
    LET r == req[p]
    IN (pc[p] # "idle" /\ r.kind \in DepFamily /\ r.raw.id = Some("")) =>
         /\ r.id = parse_id_parameter(Null)
         /\ (r.clickid # "" /\ ByClickid(users, r.clickid) # {}) =>
              /\ r.status # "error"
              /\ pc[p] # "find" =>
                   /\ r.actual \in ByClickid(users, r.clickid)
                   /\ \A i \in RowsOf(transactions, r.n) :
                        transactions[i].user_id = r.actual
              /\ (pc[p] = "done" /\ r.status = "ok") =>
                   RowsOf(transactions, r.n) # {}

\* a dep request with an empty id and the click id of the tracked lead was
\* accepted and its Event row belongs to the lead
C35_Witness ==
  /\ pc[1] = "done"
  /\ req[1].kind = "dep"
  /\ req[1].raw.id = Some("")
  /\ req[1].clickid = "c1"
  /\ req[1].status = "ok"
  /\ req[1].actual = 1
  /\ \E i \in RowsOf(transactions, req[1].n) : transactions[i].user_id = 1
\* C36: every alert a send has emitted for a failed attempt was emitted at
\* the last attempt; a send that has failed fewer than `retries` times has
\* emitted none, whatever the failure was.
C36_AlertOnlyOnFinalAttempt ==
  \A p \in Procs, t \in Targets :
    LET d == disp[p][t]
    IN /\ \A i \in 1..Len(d.alerts) : d.alerts[i].attempt = Retries
       /\ d.attempt < Retries => d.alerts = <<>>

\* one send failed its first attempt and is waiting to retry without having
\* alerted, another failed its last attempt and alerted for it
C36_Witness ==
  /\ \E p \in Procs, t \in Targets :
       /\ disp[p][t].st = "pending"
       /\ disp[p][t].attempt = 1
       /\ disp[p][t].last = "client_error"
       /\ disp[p][t].alerts = <<>>
  /\ \E p \in Procs, t \in Targets :
       /\ disp[p][t].st = "fail"
       /\ disp[p][t].alerts # <<>>
       /\ disp[p][t].alerts[1] =
            [error_type |-> "KEITARO_TIMEOUT", attempt |-> Retries]
C38_RecordedForResolvedUser ==
  \A p \in Procs :
    LET r == req[p]
    IN (/\ pc[p] = "done"
        /\ r.status = "ok"
        /\ r.kind \in IdFamily \cup {"manager"}
        /\ r.existed
        /\ r.ens # r.id) =>
         \A i \in RowsOf(transactions, r.n) : transactions[i].user_id = r.ens
\* C39: a request whose duplicate check raised a storage error is handled
\* as a new event: it is answered neither duplicate nor error, its Event row
\* is in the log, and for the tracked lead the sends of its kind were created.
C39_DuplicateGuardFailsOpen ==
  \A p \in Procs :
    LET r == req[p]
    IN (pc[p] = "done" /\ r.dup_failed) =>
         /\ r.status = "ok"
         /\ \E i \in RowsOf(transactions, r.n) :
              /\ transactions[i].user_id = EventUser(r)
              /\ transactions[i].action = r.kind
         /\ (EventUser(r) = 1 /\ r.kind \in {"ftm", "reg", "dep", "redep"}) =>
              disp[p]["keitaro"].st # "none"
         /\ (EventUser(r) = 1 /\ r.kind \in {"ftm", "dep", "redep", "withdraw"}) =>
              disp[p]["chatterfy"].st # "none"

\* the duplicate check of a second identical deposit of the tracked lead
\* raised: the deposit was recorded a second time and dispatched
C39_Witness ==
  /\ pc[1] = "done"
  /\ req[1].dup_failed
  /\ req[1].kind = "dep"
  /\ req[1].status = "ok"
  /\ Len(transactions) = 2
  /\ transactions[1].user_id = 1 /\ transactions[2].user_id = 1
  /\ transactions[1].action = "dep" /\ transactions[2].action = "dep"
  /\ transactions[1].sum = transactions[2].sum
  /\ \A t \in Targets : disp[1][t].st # "none"
\* C40: a send has returned ok exactly when an attempt of it was answered
\* HTTP 200; at most one attempt of a send was answered 200 and none was made
\* after it, the attempt number returned with ok is the index of that attempt,
\* and a send that returned not ok made `retries` attempts, none answered 200.
C40_OkIffHttp200 ==
  \A p \in Procs, t \in Targets :
    LET d == disp[p][t]
    IN /\ d.st = "ok" <=> d.got200 # <<>>
       /\ Len(d.got200) <= 1
       /\ d.st = "ok" => d.attempt = d.got200[1]
       /\ d.st = "fail" => d.attempt = Retries /\ d.got200 = <<>>
       /\ d.st = "pending" => d.attempt < Retries
====
